---- MODULE Spec2Model ----
(***************************************************************************)
(* IOXIO Tags: the tag codec ("IT1:" + Base45 of a COSE envelope), the     *)
(* untrusted extractor, the trust resolver and the verifier of             *)
(* api/app/tag.py, and the signer make_cose_code.                          *)
(*                                                                         *)
(* Bytes are sequences of 0..255, text is a sequence of one-character      *)
(* strings.  A coroutine runs atomically between two awaits, so each       *)
(* action is the code from one await (or the call) to the next await (or   *)
(* the return / raise).                                                    *)
(***************************************************************************)
EXTENDS Integers, Sequences, FiniteSets, TLC

None == "None"

(***************************************************************************)
(* Bounds                                                                  *)
(***************************************************************************)
\* Longest "keys" array of a fetched key-set document.
MaxKeys == 2

(***************************************************************************)
(* Base45 (the base45 package, RFC 9285), as b45encode / b45decode compute *)
(***************************************************************************)
BASE45_CHARSET ==
    << "0", "1", "2", "3", "4", "5", "6", "7", "8", "9",
       "A", "B", "C", "D", "E", "F", "G", "H", "I", "J",
       "K", "L", "M", "N", "O", "P", "Q", "R", "S", "T",
       "U", "V", "W", "X", "Y", "Z", " ", "$", "%", "*",
       "+", "-", ".", "/", ":" >>

B45Chars == { BASE45_CHARSET[i] : i \in 1..45 }

\* BASE45_DICT[c]: the value 0..44 of a symbol of the alphabet.
B45Value(c) == (CHOOSE i \in 1..45 : BASE45_CHARSET[i] = c) - 1

RECURSIVE b45encode(_)
b45encode(buf) ==
    IF Len(buf) = 0 THEN << >>
    ELSE IF Len(buf) = 1
    THEN << BASE45_CHARSET[(buf[1] % 45) + 1],
            BASE45_CHARSET[(buf[1] \div 45) + 1] >>
    ELSE LET x == buf[1] * 256 + buf[2]
             e == x \div (45 * 45)
             r == x % (45 * 45)
         IN  << BASE45_CHARSET[(r % 45) + 1],
                BASE45_CHARSET[(r \div 45) + 1],
                BASE45_CHARSET[e + 1] >>
             \o b45encode(SubSeq(buf, 3, Len(buf)))

\* The bytes of a string of alphabet symbols whose length is not 1 mod 3;
\* ok is FALSE when a group is out of range (ValueError).
RECURSIVE B45Groups(_)
B45Groups(s) ==
    IF Len(s) = 0 THEN [ok |-> TRUE, bytes |-> << >>]
    ELSE IF Len(s) >= 3
    THEN LET x == B45Value(s[1]) + B45Value(s[2]) * 45
                  + B45Value(s[3]) * 45 * 45
             rest == B45Groups(SubSeq(s, 4, Len(s)))
         IN  IF x > 65535 \/ ~rest.ok THEN [ok |-> FALSE, bytes |-> << >>]
             ELSE [ok |-> TRUE, bytes |-> << x \div 256, x % 256 >> \o rest.bytes]
    ELSE LET x == B45Value(s[1]) + B45Value(s[2]) * 45
         IN  IF x > 255 THEN [ok |-> FALSE, bytes |-> << >>]
             ELSE [ok |-> TRUE, bytes |-> << x >>]

\* b45decode(s): ok is FALSE for ValueError("Invalid base45 string").
b45decode(s) ==
    IF \E i \in 1..Len(s) : s[i] \notin B45Chars
    THEN [ok |-> FALSE, bytes |-> << >>]
    ELSE IF Len(s) % 3 = 1 THEN [ok |-> FALSE, bytes |-> << >>]
    ELSE B45Groups(s)

(***************************************************************************)
(* Strings on the wire.  CBOR text and byte strings are modelled by a code *)
(* table: the byte of a string is its place in Strings; Absent is a        *)
(* missing field and any other byte does not decode.                       *)
(***************************************************************************)
Strings ==
    << "acme.example", "other.example", "widget", "12345", "67890",
       "key-1", "key-2" >>

Issuers  == { "acme.example", "other.example" }
Products == { "widget" }
Ids      == { "12345", "67890" }
Kids     == { "key-1", "key-2" }

StrCode(s) == CHOOSE i \in 1..Len(Strings) : Strings[i] = s
IsStrCode(b) == b \in 1..Len(Strings)
Absent == 0

(***************************************************************************)
(* Configuration and module-level values                                   *)
(***************************************************************************)
\* conf.RSA_ISS, conf.RSA_KID
RSA_ISS == "acme.example"
RSA_KID == "key-1"

\* COSE algorithms from technical format to string argument format
ALGS == (-257 :> "RS256")

\* The numeric COSE identifier cwt puts on the wire for a key's alg.
CoseAlgId(alg) == CASE alg = "RS256" -> -257
                    [] alg = "ES256" -> -7

\* Key material is a number; a signature made with private material n
\* verifies under public material n only.
RsaMaterial == 1
InvalidMaterial == 2
DummyMaterial == 3

RSA_PRIVATE_KEY ==
    [kid |-> RSA_KID, alg |-> "RS256", n |-> RsaMaterial, verify |-> "rsa"]
INVALID_PRIVATE_KEY ==
    [kid |-> RSA_KID, alg |-> "RS256", n |-> InvalidMaterial, verify |-> "rsa"]

IOXIO_TAGS_HEADER == << "I", "T", "1", ":" >>

(***************************************************************************)
(* The COSE_Sign1 envelope.  Nine bytes stand for its CBOR:                *)
(*   [1]     the CBOR tag (210 = tag 18, COSE_Sign1)                       *)
(*   [2][3]  protected header 1 (alg), a CBOR negative integer -1 - n,     *)
(*           n = [2]*256 + [3]; 255,255 when the header is absent          *)
(*   [4]     unprotected header 4 (kid); Absent when missing               *)
(*   [5..7]  the payload map: iss, product, id                             *)
(*   [8][9]  the signature: the signing material and the digest of the     *)
(*           signed bytes (protected header and payload)                   *)
(***************************************************************************)
CoseSign1Tag == 210

AlgBytes(id) == << (-1 - id) \div 256, (-1 - id) % 256 >>
NoAlgBytes == << 255, 255 >>

\* cbor2.dumps(raw_data)
cbor2_dumps(raw_data) ==
    << StrCode(raw_data.iss), StrCode(raw_data.product), StrCode(raw_data.id) >>

Digest(tbs) ==
    (tbs[1] * 3 + tbs[2] * 5 + tbs[3] * 7 + tbs[4] * 11 + tbs[5] * 13) % 251

\* The signature of the to-be-signed bytes under key material n.
SignatureOf(n, tbs) == << n, Digest(tbs) >>

\* cose.encode(cbor_data, private_key), alg_auto_inclusion and
\* kid_auto_inclusion set: both headers come from the key.
cose_encode(cbor_data, key) ==
    LET prot == AlgBytes(CoseAlgId(key.alg))
    IN  << CoseSign1Tag >> \o prot \o << StrCode(key.kid) >> \o cbor_data
        \o SignatureOf(key.n, prot \o cbor_data)

NoMessage ==
    [ok |-> FALSE, protected |-> << >>, unprotected |-> << >>,
     payload |-> << >>, signature |-> << >>, tbs |-> << >>]

\* cwt.COSEMessage.loads(cose_bytes); ok is FALSE when the bytes are no
\* tagged COSE structure (ValueError).
COSEMessage_loads(b) ==
    IF Len(b) # 9 THEN NoMessage
    ELSE IF b[1] # CoseSign1Tag THEN NoMessage
    ELSE [ ok          |-> TRUE,
           protected   |-> IF << b[2], b[3] >> = NoAlgBytes THEN << >>
                           ELSE (1 :> (-1 - (b[2] * 256 + b[3]))),
           unprotected |-> IF b[4] = Absent THEN << >> ELSE (4 :> b[4]),
           payload     |-> SubSeq(b, 5, 7),
           signature   |-> SubSeq(b, 8, 9),
           tbs         |-> SubSeq(b, 2, 3) \o SubSeq(b, 5, 7) ]

\* key.verify(tbs, signature); the dummy key of cose_parse_insecure has it
\* overridden to say yes.
KeyVerify(key, tbs, sig) ==
    \/ key.verify = "always_true"
    \/ sig = SignatureOf(key.n, tbs)

\* The dict of the payload map: a field whose byte is Absent is missing.
PayloadDict(p) ==
    LET fields == << "iss", "product", "id" >>
        present == { i \in 1..3 : p[i] # Absent }
    IN  [ f \in { fields[i] : i \in present } |->
            LET i == CHOOSE j \in present : fields[j] = f IN Strings[p[i]] ]

\* cwt.decode(cose_bytes, key, no_verify): the claims; ok is FALSE for a
\* CWTError (VerifyError when the signature check fails, DecodeError when
\* the payload does not decode).
cwt_decode(b, key, no_verify) ==
    LET msg == COSEMessage_loads(b)
    IN  IF ~msg.ok THEN [ok |-> FALSE, claims |-> << >>]
        ELSE IF ~no_verify /\ ~KeyVerify(key, msg.tbs, msg.signature)
             THEN [ok |-> FALSE, claims |-> << >>]
        ELSE IF \E i \in 1..3 : msg.payload[i] # Absent
                                  /\ ~IsStrCode(msg.payload[i])
             THEN [ok |-> FALSE, claims |-> << >>]
        ELSE [ok |-> TRUE, claims |-> PayloadDict(msg.payload)]

(***************************************************************************)
(* How a call ends: exc is None when it returns, else the exception that   *)
(* reaches the caller.  A TagsError carries its code and its error text.   *)
(* value is what a returning call returns: << >> for Python's None, else   *)
(* << v >>.                                                                *)
(***************************************************************************)
Return(value) ==
    [exc |-> None, code |-> None, error |-> None, value |-> value]
Returned == Return(<< >>)
Raise(e) == [exc |-> e, code |-> None, error |-> None, value |-> << >>]
TagsError(error, code) ==
    [exc |-> "TagsError", code |-> code, error |-> error, value |-> << >>]

\* A dict not assigned yet.
NoDoc == [unset |-> TRUE]

\* The stages of verify_code, in the order of its code.
Stages ==
    << "version", "b45decode", "parse", "fetch_passport", "fetch_jwks",
       "select_key", "cose_verify" >>

\* A table in which a missing key and a bad signature report one code.
TagsErrorCode_OneSignatureCode ==
    [ version        |-> "signature_verification_failed",
      b45decode      |-> "signature_verification_failed",
      parse          |-> "signature_verification_failed",
      fetch_passport |-> "invalid_issuer_cannot_read_product_passport_metadata",
      fetch_jwks     |-> "invalid_issuer_cannot_read_jwks",
      select_key     |-> "invalid_signature_jwks_failed",
      cose_verify    |-> "invalid_signature_jwks_failed" ]

\* The code of the TagsError each stage raises.
TagsErrorCode ==
    [ version        |-> "signature_verification_failed",
      b45decode      |-> "signature_verification_failed",
      parse          |-> "signature_verification_failed",
      fetch_passport |-> "invalid_issuer_cannot_read_product_passport_metadata",
      fetch_jwks     |-> "invalid_issuer_cannot_read_jwks",
      select_key     |-> "invalid_signature_jwks_invalid_key",
      cose_verify    |-> "invalid_signature_jwks_failed" ]

(***************************************************************************)
(* Wire codec and untrusted extractor                                      *)
(***************************************************************************)
startswith(code, prefix) ==
    Len(code) >= Len(prefix) /\ SubSeq(code, 1, Len(prefix)) = prefix

\* A decoder that Base45-decodes before it looks at the version marker.
ioxio_tag_str_to_cose_bytes_DecodeFirst(code) ==
    LET dec == b45decode(SubSeq(code, 5, Len(code)))
    IN  IF ~dec.ok
        THEN [end |-> TagsError("Not an IOXIO Tag code, failed Base45 decode",
                                "signature_verification_failed"),
              bytes |-> << >>, stages |-> << "b45decode" >>]
        ELSE IF ~startswith(code, IOXIO_TAGS_HEADER)
        THEN [end |-> TagsError("Not an IOXIO Tag code, missing version identifier.",
                                "signature_verification_failed"),
              bytes |-> << >>, stages |-> << "b45decode", "version" >>]
        ELSE [end |-> Returned, bytes |-> dec.bytes,
              stages |-> << "b45decode", "version" >>]

\* end: how the call ends; bytes: its value; stages: the stages it started.
ioxio_tag_str_to_cose_bytes(code) ==
    IF ~startswith(code, IOXIO_TAGS_HEADER)
    THEN [end |-> TagsError("Not an IOXIO Tag code, missing version identifier.",
                            TagsErrorCode.version),
          bytes |-> << >>, stages |-> << "version" >>]
    ELSE LET code_b45 == SubSeq(code, 5, Len(code))
             dec == b45decode(code_b45)
         IN  IF ~dec.ok
             THEN [end |-> TagsError("Not an IOXIO Tag code, failed Base45 decode",
                                     TagsErrorCode.b45decode),
                   bytes |-> << >>, stages |-> << "version", "b45decode" >>]
             ELSE [end |-> Returned, bytes |-> dec.bytes,
                   stages |-> << "version", "b45decode" >>]

NoBasics == [alg |-> None, kid |-> None, payload |-> NoDoc]

\* CodePayload(**payload): pydantic wants iss, product and id.
CodePayloadValid(payload) == {"iss", "product", "id"} \subseteq DOMAIN payload

cose_parse_insecure(cose_bytes) ==
    LET msg == COSEMessage_loads(cose_bytes)
    IN  IF ~msg.ok THEN [end |-> Raise("ValueError"), basics |-> NoBasics]
        ELSE IF 1 \notin DOMAIN msg.protected
             THEN [end |-> Raise("KeyError"), basics |-> NoBasics]
        ELSE IF msg.protected[1] \notin DOMAIN ALGS
             THEN [end |-> Raise("KeyError"), basics |-> NoBasics]
        ELSE IF 4 \notin DOMAIN msg.unprotected
             THEN [end |-> Raise("KeyError"), basics |-> NoBasics]
        ELSE LET alg == ALGS[msg.protected[1]]
                 kid == Strings[msg.unprotected[4]]
                 dummy_key == [kid |-> kid, alg |-> alg, n |-> DummyMaterial,
                               verify |-> "always_true"]
                 dec == cwt_decode(cose_bytes, dummy_key, TRUE)
             IN  IF ~dec.ok
                 THEN [end |-> TagsError("cwt.CWTError", TagsErrorCode.parse),
                       basics |-> NoBasics]
                 ELSE IF ~CodePayloadValid(dec.claims)
                 THEN [end |-> Raise("ValidationError"), basics |-> NoBasics]
                 ELSE [end |-> Returned,
                       basics |-> [alg |-> alg, kid |-> kid,
                                   payload |-> dec.claims]]

(***************************************************************************)
(* Trust resolver and verifier                                             *)
(***************************************************************************)
get_product_passport_uri(iss) ==
    << "https://", iss, "/.well-known/product-passport.json" >>

\* ProductPassport(**doc): pydantic wants jwks_uri, logo_url and
\* product_dataspace.
ProductPassportValid(doc) ==
    {"jwks_uri", "logo_url", "product_dataspace"} \subseteq DOMAIN doc

\* cwt.COSEKey.from_jwk(jwk)
COSEKey_from_jwk(jwk) ==
    [kid |-> jwk.kid, alg |-> jwk.alg, n |-> jwk.n, verify |-> "rsa"]

\* A search that compares the kid alone.
RECURSIVE NextJwk_KidOnly(_, _, _, _)
NextJwk_KidOnly(keys, i, kid, alg) ==
    IF i > Len(keys) THEN [exc |-> "StopIteration", at |-> 0]
    ELSE IF "kid" \notin DOMAIN keys[i] THEN [exc |-> "KeyError", at |-> 0]
    ELSE IF keys[i].kid # kid THEN NextJwk_KidOnly(keys, i + 1, kid, alg)
    ELSE IF "alg" \notin DOMAIN keys[i] THEN [exc |-> "KeyError", at |-> 0]
    ELSE [exc |-> None, at |-> i]

\* next(jwk for jwk in keys if jwk["kid"] == kid and jwk["alg"] == alg),
\* from element i on: the place of the first match (found), or the
\* exception that ends the search.  The "and" does not read alg when the
\* kid differs.
RECURSIVE NextJwk(_, _, _, _)
NextJwk(keys, i, kid, alg) ==
    IF i > Len(keys) THEN [exc |-> "StopIteration", at |-> 0]
    ELSE IF "kid" \notin DOMAIN keys[i] THEN [exc |-> "KeyError", at |-> 0]
    ELSE IF keys[i].kid # kid THEN NextJwk(keys, i + 1, kid, alg)
    ELSE IF "alg" \notin DOMAIN keys[i] THEN [exc |-> "KeyError", at |-> 0]
    ELSE IF keys[i].alg # alg THEN NextJwk(keys, i + 1, kid, alg)
    ELSE [exc |-> None, at |-> i]

\* A cose_verify that decodes without checking the signature.
cose_verify_NoVerify(cose_bytes, key) == cwt_decode(cose_bytes, key, TRUE).ok

\* cose_verify(cose_bytes, key): cwt.decode with the signature checked;
\* TRUE when it returns, FALSE when it raises a CWTError.
cose_verify(cose_bytes, key) == cwt_decode(cose_bytes, key, FALSE).ok

\* A verify_code whose two except clauses carry each other's code.
VerifyWithJwks_SwappedHandlers(bytes, hint, doc) ==
    IF "keys" \notin DOMAIN doc
    THEN [end |-> Raise("KeyError"), cose_key |-> << >>,
          stages |-> << "select_key" >>]
    ELSE LET found == NextJwk(doc.keys, 1, hint.kid, hint.alg)
         IN  IF found.exc = "KeyError"
             THEN [end |-> Raise("KeyError"), cose_key |-> << >>,
                   stages |-> << "select_key" >>]
             ELSE IF found.exc = "StopIteration"
             THEN [end |-> TagsError("Signature verification failed.",
                                     "invalid_signature_jwks_failed"),
                   cose_key |-> << >>, stages |-> << "select_key" >>]
             ELSE LET cose_key == COSEKey_from_jwk(doc.keys[found.at])
                  IN  [end |-> IF cose_verify(bytes, cose_key) THEN Returned
                               ELSE TagsError("Signature verification failed, matching key was not found.",
                                              "invalid_signature_jwks_invalid_key"),
                       cose_key |-> << cose_key >>,
                       stages |-> << "select_key", "cose_verify" >>]

\* verify_code from the key-set response to its end.  cose_key holds the
\* key handed to cose_verify, if the call got that far.
VerifyWithJwks(bytes, hint, doc) ==
    IF "keys" \notin DOMAIN doc
    THEN [end |-> Raise("KeyError"), cose_key |-> << >>,
          stages |-> << "select_key" >>]
    ELSE LET found == NextJwk(doc.keys, 1, hint.kid, hint.alg)
         IN  IF found.exc = "KeyError"
             THEN [end |-> Raise("KeyError"), cose_key |-> << >>,
                   stages |-> << "select_key" >>]
             ELSE IF found.exc = "StopIteration"
             THEN [end |-> TagsError("Signature verification failed, matching key was not found.",
                                     TagsErrorCode.select_key),
                   cose_key |-> << >>, stages |-> << "select_key" >>]
             ELSE LET cose_key == COSEKey_from_jwk(doc.keys[found.at])
                  IN  [end |-> IF cose_verify(bytes, cose_key) THEN Returned
                               ELSE TagsError("Signature verification failed.",
                                              TagsErrorCode.cose_verify),
                       cose_key |-> << cose_key >>,
                       stages |-> << "select_key", "cose_verify" >>]

\* verify_code from its call to the first await (the fetch of the product
\* passport) or to its end.
VerifyToFirstFetch(text) ==
    LET dec == ioxio_tag_str_to_cose_bytes(text)
    IN  IF dec.end.exc # None
        THEN [end |-> dec.end, bytes |-> << >>, basics |-> NoBasics,
              stages |-> dec.stages, fetch |-> << >>]
        ELSE LET parsed == cose_parse_insecure(dec.bytes)
             IN  IF parsed.end.exc # None
                 THEN [end |-> parsed.end, bytes |-> dec.bytes,
                       basics |-> NoBasics,
                       stages |-> dec.stages \o << "parse" >>, fetch |-> << >>]
                 ELSE [end |-> Returned, bytes |-> dec.bytes,
                       basics |-> parsed.basics,
                       stages |-> dec.stages \o << "parse", "fetch_passport" >>,
                       fetch |-> << get_product_passport_uri(
                                        parsed.basics.payload.iss) >>]

(***************************************************************************)
(* Signer                                                                  *)
(***************************************************************************)
\* slugify and the file name are kept as the four parts of the name.
make_image_filename(iss, product, id, security) ==
    << iss, product, id, security >>

\* The QR image, kept as the data it encodes.
make_image(payload, frame_type) == [data |-> payload, frame |-> frame_type]

NotMade ==
    [private_key |-> << >>, cbor_data |-> << >>, cose_encoded |-> << >>,
     payload |-> << >>, filename |-> << >>, image |-> << >>]

\* A make_cose_code that compares the issuer only after it has signed.
make_cose_code_LateCheck(iss, product, id, valid) ==
    LET private_key ==
            IF valid THEN RSA_PRIVATE_KEY ELSE INVALID_PRIVATE_KEY
        raw_data == [iss |-> iss, product |-> product, id |-> id]
        cbor_data == cbor2_dumps(raw_data)
        cose_encoded == cose_encode(cbor_data, private_key)
        payload == IOXIO_TAGS_HEADER \o b45encode(cose_encoded)
        filename == make_image_filename(iss, product, id,
                        IF valid THEN "signed" ELSE "invalid")
        image == make_image(payload, "secure")
    IN  IF valid /\ iss # RSA_ISS
        THEN [end |-> Raise("CannotSignInvalidIssuer"),
              locals |-> [private_key |-> << private_key >>,
                          cbor_data |-> cbor_data,
                          cose_encoded |-> cose_encoded,
                          payload |-> payload,
                          filename |-> << >>, image |-> << >>]]
        ELSE [end |-> Return(<< << filename, image >> >>),
              locals |-> [private_key |-> << private_key >>,
                          cbor_data |-> cbor_data,
                          cose_encoded |-> cose_encoded,
                          payload |-> payload,
                          filename |-> << filename >>,
                          image |-> << image >>]]

\* A make_cose_code that takes the two private keys the wrong way round.
make_cose_code_SwappedKeys(iss, product, id, valid) ==
    IF valid /\ iss # RSA_ISS
    THEN [end |-> Raise("CannotSignInvalidIssuer"), locals |-> NotMade]
    ELSE LET private_key ==
                 IF valid THEN INVALID_PRIVATE_KEY ELSE RSA_PRIVATE_KEY
             raw_data == [iss |-> iss, product |-> product, id |-> id]
             cbor_data == cbor2_dumps(raw_data)
             cose_encoded == cose_encode(cbor_data, private_key)
             payload == IOXIO_TAGS_HEADER \o b45encode(cose_encoded)
             filename == make_image_filename(iss, product, id,
                             IF valid THEN "signed" ELSE "invalid")
             image == make_image(payload, "secure")
         IN  [end |-> Return(<< << filename, image >> >>),
              locals |-> [private_key |-> << private_key >>,
                          cbor_data |-> cbor_data,
                          cose_encoded |-> cose_encoded,
                          payload |-> payload,
                          filename |-> << filename >>,
                          image |-> << image >>]]

\* make_cose_code(iss, product, id, valid): how it ends and its locals; a
\* local not yet assigned is << >>.
make_cose_code(iss, product, id, valid) ==
    IF valid /\ iss # RSA_ISS
    THEN [end |-> Raise("CannotSignInvalidIssuer"), locals |-> NotMade]
    ELSE LET private_key ==
                 IF valid THEN RSA_PRIVATE_KEY ELSE INVALID_PRIVATE_KEY
             raw_data == [iss |-> iss, product |-> product, id |-> id]
             cbor_data == cbor2_dumps(raw_data)
             cose_encoded == cose_encode(cbor_data, private_key)
             payload == IOXIO_TAGS_HEADER \o b45encode(cose_encoded)
             filename == make_image_filename(iss, product, id,
                             IF valid THEN "signed" ELSE "invalid")
             image == make_image(payload, "secure")
         IN  [end |-> Return(<< << filename, image >> >>),
              locals |-> [private_key |-> << private_key >>,
                          cbor_data |-> cbor_data,
                          cose_encoded |-> cose_encoded,
                          payload |-> payload,
                          filename |-> << filename >>,
                          image |-> << image >>]]

(***************************************************************************)
(* Inputs: the texts handed to verify_code and the documents the issuer    *)
(* publishes                                                               *)
(***************************************************************************)
Envelope(tag, alg_bytes, kid_byte, payload, n) ==
    << tag >> \o alg_bytes \o << kid_byte >> \o payload
    \o SignatureOf(n, alg_bytes \o payload)

Materials == { RsaMaterial, InvalidMaterial }

\* Envelopes of the right structure, signed with either key.
SignedEnvelopes ==
    { cose_encode(cbor2_dumps([iss |-> i, product |-> p, id |-> d]),
                  [kid |-> k, alg |-> "RS256", n |-> m, verify |-> "rsa"]) :
        i \in Issuers, p \in Products, d \in Ids, k \in Kids, m \in Materials }

AcmePayload == cbor2_dumps([iss |-> RSA_ISS, product |-> "widget", id |-> "12345"])

\* Envelopes with another or no algorithm header, or no key id header.
HeaderEnvelopes ==
    { Envelope(CoseSign1Tag, a, k, AcmePayload, m) :
        a \in { AlgBytes(-257), AlgBytes(-7), NoAlgBytes },
        k \in { StrCode(RSA_KID), Absent }, m \in Materials }

\* Envelopes whose payload lacks a field or does not decode.
PayloadEnvelopes ==
    { Envelope(CoseSign1Tag, AlgBytes(-257), StrCode(RSA_KID), p, m) :
        p \in { << Absent, AcmePayload[2], AcmePayload[3] >>,
                << AcmePayload[1], AcmePayload[2], Absent >>,
                << 200, AcmePayload[2], AcmePayload[3] >> },
        m \in Materials }

\* Bytes that are no COSE message.
JunkBytes ==
    { << >>, << CoseSign1Tag >>,
      Envelope(24, AlgBytes(-257), StrCode(RSA_KID), AcmePayload, RsaMaterial) }

InputBytes == SignedEnvelopes \cup HeaderEnvelopes \cup PayloadEnvelopes \cup JunkBytes

AcmeText == b45encode(Envelope(CoseSign1Tag, AlgBytes(-257), StrCode(RSA_KID),
                               AcmePayload, RsaMaterial))

InputTexts ==
    { IOXIO_TAGS_HEADER \o b45encode(b) : b \in InputBytes }
    \cup { << >>, << "I", "T" >>, AcmeText,
           << "I", "T", "2", ":" >> \o AcmeText,
           << "i", "t", "1", ":" >> \o AcmeText,
           IOXIO_TAGS_HEADER \o << "a", "b", "c" >>,
           IOXIO_TAGS_HEADER \o << "0" >>,
           IOXIO_TAGS_HEADER \o << ":", ":" >>,
           IOXIO_TAGS_HEADER \o << ":", ":", ":" >>,
           IOXIO_TAGS_HEADER \o AcmeText \o << "0" >> }

JwksUris == { "https://acme.example/jwks.json", "https://keys.example/jwks.json" }

\* Product passport documents: complete, without jwks_uri, without logo_url.
PassportDocs ==
    { [jwks_uri |-> u, logo_url |-> "logo", product_dataspace |-> "ds"] :
        u \in JwksUris }
    \cup { [logo_url |-> "logo", product_dataspace |-> "ds"],
           [jwks_uri |-> "https://acme.example/jwks.json",
            product_dataspace |-> "ds"] }

\* Key objects: complete, without kid, without alg, without both.
JwkObjects ==
    { [kid |-> k, alg |-> a, n |-> m] :
        k \in Kids, a \in {"RS256", "ES256"}, m \in Materials }
    \cup { [alg |-> a, n |-> m] : a \in {"RS256", "ES256"}, m \in Materials }
    \cup { [kid |-> k, n |-> m] : k \in Kids, m \in Materials }
    \cup { [n |-> m] : m \in Materials }

KeyArrays == UNION { [1..len -> JwkObjects] : len \in 0..MaxKeys }

\* Key-set documents: with a keys array, or without one.
JwksDocs == { [keys |-> ks] : ks \in KeyArrays } \cup { [error |-> "not found"] }

\* What fetch_json_file gives: the parsed document, or an HTTPError.
HttpError == [http_error |-> TRUE, doc |-> NoDoc]
Fetched(doc) == [http_error |-> FALSE, doc |-> doc]

(***************************************************************************)
(* State                                                                   *)
(***************************************************************************)
VARIABLES
    call,              \* the function running: verify_code, make_cose_code
    pc,                \* idle, await_passport, await_jwks, done
    code,              \* verify_code: the text given
    cose_bytes,        \* verify_code: the decoded envelope
    basics,            \* verify_code: what cose_parse_insecure read
    product_passport,  \* verify_code: the fetched descriptor
    jwks,              \* verify_code: the fetched key set
    requests,          \* the URIs fetch_json_file was called with
    outstanding,       \* the fetch being awaited (at most one)
    trace,             \* the stages started, in order
    cose_key,          \* the key cose_verify was called with (at most one)
    outcome,           \* how the call ended
    cancelled,         \* verify_code: its task was cancelled
    mk                 \* make_cose_code: arguments and locals

vars == << call, pc, code, cose_bytes, basics, product_passport, jwks,
           requests, outstanding, trace, cose_key, outcome, cancelled, mk >>

verify_vars == << code, cose_bytes, basics, product_passport, jwks,
                  requests, outstanding, trace, cose_key, cancelled >>

Pending == [exc |-> "Pending", code |-> None, error |-> None, value |-> << >>]

NoCall == [args |-> << >>, locals |-> NotMade]

Init ==
    /\ call = None
    /\ pc = "idle"
    /\ code = << >>
    /\ cose_bytes = << >>
    /\ basics = NoBasics
    /\ product_passport = NoDoc
    /\ jwks = NoDoc
    /\ requests = << >>
    /\ outstanding = << >>
    /\ trace = << >>
    /\ cose_key = << >>
    /\ outcome = Pending
    /\ cancelled = FALSE
    /\ mk = NoCall

(***************************************************************************)
(* verify_code                                                             *)
(***************************************************************************)
\* The call of verify_code(text), run to its first await or to its end.
EnterVerifyCode(text) ==
    LET r == VerifyToFirstFetch(text)
    IN  /\ call' = "verify_code"
        /\ code' = text
        /\ cose_bytes' = r.bytes
        /\ basics' = r.basics
        /\ trace' = r.stages
        /\ requests' = r.fetch
        /\ outstanding' = r.fetch
        /\ outcome' = IF r.end.exc # None THEN r.end ELSE Pending
        /\ pc' = IF r.end.exc # None THEN "done" ELSE "await_passport"
        /\ product_passport' = NoDoc
        /\ jwks' = NoDoc
        /\ cose_key' = << >>
        /\ cancelled' = FALSE
        /\ mk' = NoCall

\* A caller hands a text to verify_code.
CallVerifyCode(text) ==
    /\ pc = "idle"
    /\ EnterVerifyCode(text)

\* A caller scans the image make_cose_code returned and hands its text to
\* verify_code.
ScanAndVerify ==
    /\ pc = "done"
    /\ call = "make_cose_code"
    /\ outcome.exc = None
    /\ EnterVerifyCode(outcome.value[1][2].data)

\* The fetch of the product passport ends; the code runs to the fetch of
\* the key set or to its end.
PassportFetched(resp) ==
    /\ pc = "await_passport"
    /\ IF resp.http_error
       THEN /\ outcome' = TagsError("Signature verification failed, couldn't read metadata from domain.",
                                    TagsErrorCode.fetch_passport)
            /\ pc' = "done"
            /\ outstanding' = << >>
            /\ UNCHANGED << product_passport, requests, trace >>
       ELSE IF ~ProductPassportValid(resp.doc)
       THEN /\ outcome' = Raise("ValidationError")
            /\ pc' = "done"
            /\ outstanding' = << >>
            /\ UNCHANGED << product_passport, requests, trace >>
       ELSE /\ product_passport' = resp.doc
            /\ requests' = Append(requests, resp.doc.jwks_uri)
            /\ outstanding' = << resp.doc.jwks_uri >>
            /\ trace' = Append(trace, "fetch_jwks")
            /\ pc' = "await_jwks"
            /\ UNCHANGED outcome
    /\ UNCHANGED << call, code, cose_bytes, basics, jwks, cose_key,
                    cancelled, mk >>

\* The fetch of the key set ends; the code runs to its end.
JwksFetched(resp) ==
    /\ pc = "await_jwks"
    /\ pc' = "done"
    /\ outstanding' = << >>
    /\ IF resp.http_error
       THEN /\ outcome' = TagsError("Signature verification failed, couldn't read JWKS keys from domain.",
                                    TagsErrorCode.fetch_jwks)
            /\ UNCHANGED << jwks, trace, cose_key >>
       ELSE LET r == VerifyWithJwks(cose_bytes, basics, resp.doc)
            IN  /\ jwks' = resp.doc
                /\ trace' = trace \o r.stages
                /\ cose_key' = r.cose_key
                /\ outcome' = r.end
    /\ UNCHANGED << call, code, cose_bytes, basics, product_passport,
                    requests, cancelled, mk >>

\* A verify_code that catches the cancellation with the HTTPError of the
\* fetch it awaits.
Cancel_CaughtAsHTTPError ==
    /\ pc \in { "await_passport", "await_jwks" }
    /\ cancelled' = TRUE
    /\ outcome' = TagsError("Signature verification failed.",
                            TagsErrorCode[trace[Len(trace)]])
    /\ outstanding' = << >>
    /\ pc' = "done"
    /\ UNCHANGED << call, code, cose_bytes, basics, product_passport, jwks,
                    requests, trace, cose_key, mk >>

\* The task running verify_code is cancelled while it awaits a fetch:
\* CancelledError is thrown into the await, ends the fetch, is not an
\* HTTPError and so leaves verify_code as it is.
Cancel ==
    /\ pc \in { "await_passport", "await_jwks" }
    /\ cancelled' = TRUE
    /\ outcome' = Raise("CancelledError")
    /\ outstanding' = << >>
    /\ pc' = "done"
    /\ UNCHANGED << call, code, cose_bytes, basics, product_passport, jwks,
                    requests, trace, cose_key, mk >>

(***************************************************************************)
(* make_cose_code                                                          *)
(***************************************************************************)
CallMakeCoseCode(iss, product, id, valid) ==
    /\ pc = "idle"
    /\ LET r == make_cose_code(iss, product, id, valid)
       IN  /\ mk' = [args |-> << iss, product, id, valid >>,
                     locals |-> r.locals]
           /\ outcome' = r.end
    /\ call' = "make_cose_code"
    /\ pc' = "done"
    /\ UNCHANGED verify_vars

\* The call is over; nothing of it is kept.
Finish ==
    /\ pc = "done"
    /\ call' = None
    /\ pc' = "idle"
    /\ code' = << >>
    /\ cose_bytes' = << >>
    /\ basics' = NoBasics
    /\ product_passport' = NoDoc
    /\ jwks' = NoDoc
    /\ requests' = << >>
    /\ outstanding' = << >>
    /\ trace' = << >>
    /\ cose_key' = << >>
    /\ outcome' = Pending
    /\ cancelled' = FALSE
    /\ mk' = NoCall

Next ==
    \/ \E text \in InputTexts : CallVerifyCode(text)
    \/ ScanAndVerify
    \/ \E doc \in PassportDocs : PassportFetched(Fetched(doc))
    \/ PassportFetched(HttpError)
    \/ \E doc \in JwksDocs : JwksFetched(Fetched(doc))
    \/ JwksFetched(HttpError)
    \/ Cancel
    \/ \E iss \in Issuers, product \in Products, id \in Ids, valid \in BOOLEAN :
          CallMakeCoseCode(iss, product, id, valid)
    \/ Finish

Spec == Init /\ [][Next]_vars

(***************************************************************************)
(* Properties                                                              *)
(***************************************************************************)
VerifyDone == call = "verify_code" /\ pc = "done"
MakeDone == call = "make_cose_code" /\ pc = "done"
LastStage == trace[Len(trace)]
FailedAt(stage) ==
    VerifyDone /\ outcome.exc # None /\ ~cancelled /\ LastStage = stage

\* A key object with both kid and alg.
FullJwk(jwk) == {"kid", "alg"} \subseteq DOMAIN jwk
\* A key-set document whose keys array holds only such key objects.
KeySetFetched ==
    /\ "keys" \in DOMAIN jwks
    /\ \A i \in 1..Len(jwks.keys) : FullJwk(jwks.keys[i])
\* The places of the keys whose kid and alg both equal the hint.
Matches(keys, hint) ==
    { i \in 1..Len(keys) :
        FullJwk(keys[i]) /\ keys[i].kid = hint.kid /\ keys[i].alg = hint.alg }
FirstOf(S) == CHOOSE i \in S : \A j \in S : i <= j
\* The signature of the envelope is the one material n makes of its
\* signed bytes.
SignedBy(bytes, n) ==
    LET msg == COSEMessage_loads(bytes)
    IN  msg.ok /\ msg.signature = SignatureOf(n, msg.tbs)

\* C1: verify_code returns normally only after cose_verify ran on the
\* token's envelope bytes with a key of the fetched key set whose kid and
\* alg equal the token's headers, and that check succeeded; the always-true
\* dummy key never decides, and every other finished run raised.
C1_AcceptsOnlyAfterSignatureCheck ==
    VerifyDone =>
        IF outcome.exc = None
        THEN /\ LastStage = "cose_verify"
             /\ Len(cose_key) = 1
             /\ cose_key[1].verify # "always_true"
             /\ cose_key[1].kid = basics.kid
             /\ cose_key[1].alg = basics.alg
             /\ "keys" \in DOMAIN jwks
             /\ \E i \in 1..Len(jwks.keys) :
                    /\ FullJwk(jwks.keys[i])
                    /\ COSEKey_from_jwk(jwks.keys[i]) = cose_key[1]
             /\ b45decode(SubSeq(code, 5, Len(code))).bytes = cose_bytes
             /\ SignedBy(cose_bytes, cose_key[1].n)
        ELSE outcome.exc \notin { None, "Pending" }

C1_Witness == VerifyDone /\ outcome.exc = None /\ Len(jwks.keys) = 2

\* The payloads make_cose_code signs on the production path.
SignablePayloads ==
    { [iss |-> RSA_ISS, product |-> p, id |-> d] : p \in Products, d \in Ids }
MintedText(P) == make_cose_code(P.iss, P.product, P.id, TRUE).locals.payload
\* The key object of the public key of RSA_PRIVATE_KEY.
IsSigningJwk(jwk) ==
    FullJwk(jwk) /\ jwk.kid = RSA_PRIVATE_KEY.kid
    /\ jwk.alg = RSA_PRIVATE_KEY.alg /\ jwk.n = RSA_PRIVATE_KEY.n

\* C2 as stated: the text of make_cose_code(P, valid=True), verified with
\* the issuer publishing a descriptor and a key set that contains the
\* public key of the signing key, is verified and the result is P.
C2_RoundTripReturnsPayload ==
    \A P \in SignablePayloads :
        ( /\ VerifyDone
          /\ code = MintedText(P)
          /\ ProductPassportValid(product_passport)
          /\ "keys" \in DOMAIN jwks
          /\ \E i \in 1..Len(jwks.keys) : IsSigningJwk(jwks.keys[i]) )
        => (outcome.exc = None /\ outcome.value = << P >>)

\* C2 amended: when the key set holds only complete key objects and its
\* first key with the signing key's kid and alg is its public key,
\* verify_code returns without raising; it returns None, and the payload
\* cose_parse_insecure read is P.
C2_RoundTripVerifies ==
    \A P \in SignablePayloads :
        ( /\ VerifyDone
          /\ code = MintedText(P)
          /\ ProductPassportValid(product_passport)
          /\ KeySetFetched
          /\ Matches(jwks.keys, RSA_PRIVATE_KEY) # {}
          /\ IsSigningJwk(jwks.keys[FirstOf(Matches(jwks.keys, RSA_PRIVATE_KEY))]) )
        => /\ outcome.exc = None
           /\ outcome.value = << >>
           /\ basics.payload = P
           /\ cose_key = << COSEKey_from_jwk(
                  jwks.keys[FirstOf(Matches(jwks.keys, RSA_PRIVATE_KEY))]) >>

C2_Witness ==
    /\ VerifyDone
    /\ code = MintedText([iss |-> RSA_ISS, product |-> "widget", id |-> "67890"])
    /\ KeySetFetched
    /\ Len(jwks.keys) = 2
    /\ ~IsSigningJwk(jwks.keys[1])
    /\ IsSigningJwk(jwks.keys[2])
    /\ outcome.exc = None

\* C3: on a key set of complete key objects the key handed to cose_verify
\* is the first, in key-set order, whose kid and alg both equal the hint;
\* when none matches the call fails with invalid_signature_jwks_invalid_key
\* and cose_verify is not called.
C3_FirstExactMatchIsUsed ==
    (VerifyDone /\ KeySetFetched) =>
        IF Matches(jwks.keys, basics) = {}
        THEN /\ outcome.exc = "TagsError"
             /\ outcome.code = "invalid_signature_jwks_invalid_key"
             /\ cose_key = << >>
             /\ LastStage = "select_key"
        ELSE /\ cose_key = << COSEKey_from_jwk(
                      jwks.keys[FirstOf(Matches(jwks.keys, basics))]) >>
             /\ LastStage = "cose_verify"

\* Two keys match, the second is the one that would verify: the first is
\* used and the call fails.
C3_Witness ==
    /\ VerifyDone /\ KeySetFetched
    /\ Matches(jwks.keys, basics) = {1, 2}
    /\ ~SignedBy(cose_bytes, jwks.keys[1].n)
    /\ SignedBy(cose_bytes, jwks.keys[2].n)
    /\ outcome.code = "invalid_signature_jwks_failed"

\* C4: make_cose_code with valid=True and an issuer other than conf.RSA_ISS
\* raises CannotSignInvalidIssuer with nothing serialized, signed, encoded
\* or rendered, and returns nothing.
C4_IssuerMismatchRejectedFirst ==
    (MakeDone /\ mk.args[4] /\ mk.args[1] # RSA_ISS) =>
        /\ outcome.exc = "CannotSignInvalidIssuer"
        /\ outcome.value = << >>
        /\ mk.locals.private_key = << >>
        /\ mk.locals.cbor_data = << >>
        /\ mk.locals.cose_encoded = << >>
        /\ mk.locals.payload = << >>
        /\ mk.locals.image = << >>

C4_Witness ==
    MakeDone /\ mk.args[4] /\ mk.args[1] = "other.example"
    /\ outcome.exc = "CannotSignInvalidIssuer"

\* The key set publishes the token's kid, but only under another algorithm.
AlgorithmConfusion ==
    /\ VerifyDone /\ KeySetFetched
    /\ Matches(jwks.keys, basics) = {}
    /\ \E i \in 1..Len(jwks.keys) :
           jwks.keys[i].kid = basics.kid /\ jwks.keys[i].alg # basics.alg

\* C5 as stated: such a token fails with AlgorithmMismatch, a kind of its
\* own, neither NoMatchingKey nor SignatureInvalid.
C5_AlgorithmMismatchIsItsOwnKind ==
    AlgorithmConfusion =>
        /\ outcome.exc = "TagsError"
        /\ outcome.code \notin { TagsErrorCode.select_key,
                                 TagsErrorCode.cose_verify }

\* C5 amended: such a token is never verified; key selection finds no key
\* and the call fails with NoMatchingKey
\* (invalid_signature_jwks_invalid_key) without a signature check.
C5_AlgorithmMismatchIsNoMatchingKey ==
    AlgorithmConfusion =>
        /\ outcome.exc = "TagsError"
        /\ outcome.code = "invalid_signature_jwks_invalid_key"
        /\ cose_key = << >>

\* The key of the other algorithm carries the very material that signed.
C5_Witness ==
    /\ AlgorithmConfusion
    /\ \E i \in 1..Len(jwks.keys) :
           /\ jwks.keys[i].kid = basics.kid
           /\ jwks.keys[i].alg = "ES256"
           /\ SignedBy(cose_bytes, jwks.keys[i].n)

IsPrefix(s, t) == Len(s) <= Len(t) /\ SubSeq(t, 1, Len(s)) = s

\* C6: the stages start in the order of Stages and none starts after a
\* failure; a text without "IT1:" fails before any Base45 decoding; no
\* fetch is issued for a text that fails the version check, the decoding
\* or the parse; the key set is fetched only after the descriptor was
\* read, from the jwks_uri of that descriptor.
C6_StagesInOrderFailFast ==
    call = "verify_code" =>
        /\ Len(trace) >= 1
        /\ IsPrefix(trace, Stages)
        /\ ~startswith(code, IOXIO_TAGS_HEADER) =>
               /\ trace = << "version" >>
               /\ outcome.error = "Not an IOXIO Tag code, missing version identifier."
        /\ ( /\ startswith(code, IOXIO_TAGS_HEADER)
             /\ ~b45decode(SubSeq(code, 5, Len(code))).ok ) =>
               /\ trace = << "version", "b45decode" >>
               /\ outcome.error = "Not an IOXIO Tag code, failed Base45 decode"
        /\ Len(trace) <= 3 => (requests = << >> /\ pc = "done" /\ outcome.exc # None)
        /\ Len(trace) = 4 =>
               /\ requests = << get_product_passport_uri(basics.payload.iss) >>
               /\ ~ProductPassportValid(product_passport)
        /\ Len(trace) >= 5 =>
               /\ ProductPassportValid(product_passport)
               /\ requests = << get_product_passport_uri(basics.payload.iss),
                                product_passport.jwks_uri >>
        /\ pc = "await_passport" => LastStage = "fetch_passport"
        /\ pc = "await_jwks" => LastStage = "fetch_jwks"
        /\ outstanding = IF pc = "done" THEN << >> ELSE << requests[Len(requests)] >>
        /\ (pc = "done" /\ LastStage # "cose_verify") => outcome.exc # None

C6_Witness ==
    /\ VerifyDone
    /\ trace = Stages
    /\ requests[2] = "https://keys.example/jwks.json"
    /\ outcome.exc = "TagsError"

\* C7: a transport or parse failure of the issuer descriptor ends the call
\* with invalid_issuer_cannot_read_product_passport_metadata, one of the
\* key-set document (no keys array, a key object without kid or alg) with
\* invalid_issuer_cannot_read_jwks; nothing untyped reaches the caller.
C7_FetchFailuresAreTyped ==
    /\ FailedAt("fetch_passport") =>
           /\ outcome.exc = "TagsError"
           /\ outcome.code = "invalid_issuer_cannot_read_product_passport_metadata"
    /\ FailedAt("fetch_jwks") =>
           /\ outcome.exc = "TagsError"
           /\ outcome.code = "invalid_issuer_cannot_read_jwks"
    /\ (VerifyDone /\ jwks # NoDoc /\ ~KeySetFetched) =>
           /\ outcome.exc = "TagsError"
           /\ outcome.code = "invalid_issuer_cannot_read_jwks"

\* C8: when cose_parse_insecure returns no CodeBasics, what it raises is a
\* TagsError.
C8_ParseFailuresAreTyped ==
    FailedAt("parse") => outcome.exc = "TagsError"

\* C9 as stated: the code a failed verify_code reports is the code of no
\* other stage.
C9_CodeTellsTheStage ==
    (VerifyDone /\ outcome.exc = "TagsError") =>
        \A i \in 1..Len(Stages) :
            Stages[i] # LastStage => TagsErrorCode[Stages[i]] # outcome.code

FormatStages == { "version", "b45decode", "parse" }

\* C9 amended: the code a failed verify_code reports is the code of no
\* other stage, except that the three stages before the first fetch
\* (version check, Base45 decoding, parse) share
\* signature_verification_failed.
C9_CodeTellsTheStageAfterParse ==
    (VerifyDone /\ outcome.exc = "TagsError") =>
        /\ outcome.code = TagsErrorCode[LastStage]
        /\ \A i \in 1..Len(Stages) :
              (Stages[i] # LastStage /\ TagsErrorCode[Stages[i]] = outcome.code)
                  => ( /\ { Stages[i], LastStage } \subseteq FormatStages
                       /\ outcome.code = "signature_verification_failed" )

C9_Witness ==
    /\ VerifyDone /\ outcome.exc = "TagsError"
    /\ LastStage = "b45decode"
    /\ outcome.code = TagsErrorCode.version

\* C10 as stated: a call cancelled while a fetch is outstanding reports
\* IssuerUnreachable or KeySetUnreachable, by the fetch that was
\* outstanding, with the fetch ended and no later stage run.
C10_CancelReportsUnreachable ==
    cancelled =>
        /\ pc = "done"
        /\ outstanding = << >>
        /\ outcome.exc = "TagsError"
        /\ outcome.code = TagsErrorCode[LastStage]
        /\ LastStage \in { "fetch_passport", "fetch_jwks" }

\* C10 amended: a call cancelled while a fetch is outstanding ends with
\* that fetch ended, no later stage run (no key-set fetch after a cancelled
\* descriptor fetch, no key selection, no signature check) and
\* CancelledError reaching the caller; it is never verified.
C10_CancelPropagates ==
    cancelled =>
        /\ pc = "done"
        /\ outstanding = << >>
        /\ outcome.exc = "CancelledError"
        /\ LastStage \in { "fetch_passport", "fetch_jwks" }
        /\ Len(requests) = IF LastStage = "fetch_passport" THEN 1 ELSE 2
        /\ jwks = NoDoc
        /\ cose_key = << >>

C10_Witness ==
    cancelled /\ LastStage = "fetch_jwks" /\ Len(requests) = 2

====
